---- MODULE Spec2Model ----
(***************************************************************************)
(* A model of GAIN/merge_exercises.py: merge_exercises() merges the        *)
(* records of new_exercises.json into exercises.json by name, after        *)
(* copying exercises.json to exercises.json.bak.                           *)
(*                                                                         *)
(* The three files are the persistent state.  A file is a record           *)
(* [kind, data]: kind "absent" (no such file), "corrupt" or "truncated"    *)
(* (bytes json.load rejects), or "json" (a list of records, data).  An     *)
(* exercise record is a Python dict: a function from a subset of Fields to *)
(* strings.  exercise_map holds references into existing_data; a reference *)
(* is modelled as the position of the record in existing_data.             *)
(***************************************************************************)
EXTENDS Naturals, Sequences, FiniteSets

\* Bound on the number of records of new_exercises.json.
MaxLen == 2
\* Bound on the number of records of the exercises.json the first run finds.
MaxPrimary == 1
\* Bound on the number of records of a new_exercises.json supplied between runs.
MaxReplace == 1

Names == {"A", "B"}
Values == {"v1", "v2"}
Fields == {"name", "detail"}

\* The dicts json.load can return for one exercise: a name with or without a
\* detail, or a dict without the name field.
Record ==
    { r \in UNION { [D -> Names \cup Values] : D \in SUBSET Fields } :
        /\ ("name" \in DOMAIN r => r["name"] \in Names)
        /\ ("detail" \in DOMAIN r => (r["detail"] \in Values /\ "name" \in DOMAIN r)) }

HasName(r) == "name" \in DOMAIN r

SeqsUpTo(S, n) == UNION { [1..k -> S] : k \in 0..n }

\* Names of the records of a list that carry one.
NamesOf(data) == { data[k]["name"] : k \in { j \in DOMAIN data : HasName(data[j]) } }

\* No two records of the list carry the same name.
UniqueNames(data) ==
    \A j, k \in DOMAIN data :
        (j # k /\ HasName(data[j]) /\ HasName(data[k])) => data[j]["name"] # data[k]["name"]

Absent == [kind |-> "absent", data |-> <<>>]
Corrupt == [kind |-> "corrupt", data |-> <<>>]
Truncated == [kind |-> "truncated", data |-> <<>>]
\* What json.dump(data, f, indent=2) leaves in a file it wrote completely.
JsonFile(data) == [kind |-> "json", data |-> data]

Exists(file) == file.kind # "absent"
Parses(file) == file.kind = "json"

\* exercises.json as the first run can find it: the script is its only writer,
\* and it never writes two records of one name.
PrimaryFiles ==
    {Absent, Corrupt}
        \cup { JsonFile(d) : d \in { s \in SeqsUpTo(Record, MaxPrimary) : UniqueNames(s) } }

\* new_exercises.json is the user's input: any list, duplicate names included.
IncomingFiles ==
    {Absent, Corrupt} \cup { JsonFile(d) : d \in SeqsUpTo(Record, MaxLen) }

\* The new_exercises.json a user supplies for a later run.
ReplacementFiles ==
    {Absent, Corrupt} \cup { JsonFile(d) : d \in SeqsUpTo(Record, MaxReplace) }

EmptyMap == [n \in {} |-> 0]

VARIABLES
    exercises_file,     \* EXERCISES_FILE on disk
    new_exercises_file, \* NEW_EXERCISES_FILE on disk
    backup_file,        \* EXERCISES_FILE + '.bak' on disk
    pc,                 \* position of the run inside merge_exercises
    existing_data,      \* the list loaded from exercises.json
    exercise_map,       \* name -> position in existing_data of the record it refers to
    new_data,           \* the list loaded from new_exercises.json
    idx,                \* position of the for loop in new_data
    added_count,
    updated_count,
    printed,            \* what the run printed: "none", "success" or "error"
    raised_at,          \* the step whose exception reached the handler, or "none"
    pre_exercises,      \* exercises.json as it was when the run started
    pre_backup,         \* the backup as it was when the run started
    remerge             \* the previous run succeeded and new_exercises.json is as it was

vars == <<exercises_file, new_exercises_file, backup_file, pc, existing_data,
          exercise_map, new_data, idx, added_count, updated_count, printed,
          raised_at, pre_exercises, pre_backup, remerge>>

files == <<exercises_file, new_exercises_file, backup_file>>
locals == <<existing_data, exercise_map, new_data, idx, added_count, updated_count>>
history == <<pre_exercises, pre_backup, remerge>>

Init ==
    /\ exercises_file \in PrimaryFiles
    /\ new_exercises_file \in IncomingFiles
    /\ backup_file = Absent
    /\ pc = "idle"
    /\ existing_data = <<>>
    /\ exercise_map = EmptyMap
    /\ new_data = <<>>
    /\ idx = 1
    /\ added_count = 0
    /\ updated_count = 0
    /\ printed = "none"
    /\ raised_at = "none"
    /\ pre_exercises = exercises_file
    /\ pre_backup = backup_file
    /\ remerge = FALSE

\* A handler that catches only the two exception types of the inner try.
HandleNarrow(step) ==
    /\ pc' = "done"
    /\ printed' = IF step \in {"build_map", "merge"} THEN "uncaught" ELSE "error"
    /\ raised_at' = step

\* except Exception as e: print(...) -- the single top-level handler.
Handle(step) ==
    /\ pc' = "done"
    /\ printed' = "error"
    /\ raised_at' = step

\* The inner try of the first read: a missing or unparsable file gives [].
LoadOrEmpty(file) == IF Parses(file) THEN file.data ELSE <<>>

\* merge_exercises() is called; with open(EXERCISES_FILE) ... json.load, or [].
ReadExisting ==
    /\ pc = "idle"
    /\ existing_data' = LoadOrEmpty(exercises_file)
    /\ pre_exercises' = exercises_file
    /\ pre_backup' = backup_file
    /\ printed' = "none"
    /\ raised_at' = "none"
    /\ pc' = "build_map"
    /\ UNCHANGED <<files, exercise_map, new_data, idx, added_count, updated_count, remerge>>

\* An index that registers nothing.
IndexEmpty(data) == EmptyMap

\* {ex['name']: ex for ex in data}: a later record of a name replaces an earlier one.
IndexOf(data) ==
    [n \in NamesOf(data) |->
        CHOOSE k \in DOMAIN data :
            /\ HasName(data[k]) /\ data[k]["name"] = n
            /\ \A j \in DOMAIN data : (HasName(data[j]) /\ data[j]["name"] = n) => j <= k]

BuildMapOk ==
    /\ pc = "build_map"
    /\ \A k \in DOMAIN existing_data : HasName(existing_data[k])
    /\ exercise_map' = IndexOf(existing_data)
    /\ pc' = "read_new"
    /\ UNCHANGED <<files, existing_data, new_data, idx, added_count, updated_count,
                   printed, raised_at, history>>

\* ex['name'] raises KeyError on a record without the field.
BuildMapKeyError ==
    /\ pc = "build_map"
    /\ \E k \in DOMAIN existing_data : ~HasName(existing_data[k])
    /\ Handle("build_map")
    /\ UNCHANGED <<files, locals, history>>

ReadNewOk ==
    /\ pc = "read_new"
    /\ Parses(new_exercises_file)
    /\ new_data' = new_exercises_file.data
    /\ added_count' = 0
    /\ updated_count' = 0
    /\ idx' = 1
    /\ pc' = "merge"
    /\ UNCHANGED <<files, existing_data, exercise_map, printed, raised_at, history>>

\* The second read with the first read's fallback: a bad file gives [].
ReadNewTolerant ==
    /\ pc = "read_new"
    /\ ~Parses(new_exercises_file)
    /\ new_data' = <<>>
    /\ added_count' = 0
    /\ updated_count' = 0
    /\ idx' = 1
    /\ pc' = "merge"
    /\ UNCHANGED <<files, existing_data, exercise_map, printed, raised_at, history>>

\* FileNotFoundError or JSONDecodeError of the second read: not caught locally.
ReadNewFails ==
    /\ pc = "read_new"
    /\ ~Parses(new_exercises_file)
    /\ Handle("read_new")
    /\ UNCHANGED <<files, locals, history>>

\* The for loop has a record left; new_ex is that record.
InLoop == pc = "merge" /\ idx <= Len(new_data)
new_ex == new_data[idx]

\* An update that replaces the old record by the new one.
UpdateReplace(old, new) == new

\* old.update(new): every field of new overwrites, every other field of old stays.
Update(old, new) ==
    [k \in DOMAIN old \cup DOMAIN new |-> IF k \in DOMAIN new THEN new[k] ELSE old[k]]

\* An insertion at the head of the list.
PrependNew(data, ex) == <<ex>> \o data

\* existing_data.append(new_ex)
AppendNew(data, ex) == Append(data, ex)

\* A branch that forgets to register the appended record.
NoRegister(map, name, ref) == map

\* exercise_map[name] = new_ex, the reference being the record just appended.
Register(map, name, ref) ==
    [n \in DOMAIN map \cup {name} |-> IF n = name THEN ref ELSE map[n]]

\* if name in exercise_map: exercise_map[name].update(new_ex); updated_count += 1
\* (a record appended from new_data is the same object as that element of
\* new_data, which the update changes too; the loop never reads it again).
MergeHit ==
    /\ InLoop
    /\ HasName(new_ex)
    /\ new_ex["name"] \in DOMAIN exercise_map
    /\ existing_data' =
          [existing_data EXCEPT ![exercise_map[new_ex["name"]]] = Update(@, new_ex)]
    /\ updated_count' = updated_count + 1
    /\ idx' = idx + 1
    /\ UNCHANGED <<files, pc, exercise_map, new_data, added_count, printed, raised_at, history>>

\* An else branch that counts the appended record as an update.
MergeMissMiscount ==
    /\ InLoop
    /\ HasName(new_ex)
    /\ new_ex["name"] \notin DOMAIN exercise_map
    /\ existing_data' = AppendNew(existing_data, new_ex)
    /\ exercise_map' = Register(exercise_map, new_ex["name"], Len(existing_data) + 1)
    /\ updated_count' = updated_count + 1
    /\ idx' = idx + 1
    /\ UNCHANGED <<files, pc, new_data, added_count, printed, raised_at, history>>

\* else: existing_data.append(new_ex); exercise_map[name] = new_ex; added_count += 1
MergeMiss ==
    /\ InLoop
    /\ HasName(new_ex)
    /\ new_ex["name"] \notin DOMAIN exercise_map
    /\ existing_data' = AppendNew(existing_data, new_ex)
    /\ exercise_map' = Register(exercise_map, new_ex["name"], Len(existing_data) + 1)
    /\ added_count' = added_count + 1
    /\ idx' = idx + 1
    /\ UNCHANGED <<files, pc, new_data, updated_count, printed, raised_at, history>>

\* name = new_ex['name'] raises KeyError on a record without the field.
MergeKeyError ==
    /\ InLoop
    /\ ~HasName(new_ex)
    /\ Handle("merge")
    /\ UNCHANGED <<files, locals, history>>

\* The for loop is exhausted: the next statement is the backup copy.
AtBackup == pc = "merge" /\ idx > Len(new_data)

\* A copy that leaves an existing destination alone.
CopyKeep(src, dst) == IF Exists(dst) THEN dst ELSE src

\* The destination after shutil.copy2(src, dst) completed: the bytes of src.
Copy2(src, dst) == src

\* shutil.copy2(EXERCISES_FILE, EXERCISES_FILE + '.bak') completes.
BackupOk ==
    /\ AtBackup
    /\ Exists(exercises_file)
    /\ backup_file' = Copy2(exercises_file, backup_file)
    /\ pc' = "write"
    /\ UNCHANGED <<exercises_file, new_exercises_file, locals, printed, raised_at, history>>

\* shutil.copy2 raises FileNotFoundError: there is no exercises.json to copy.
BackupMissing ==
    /\ AtBackup
    /\ ~Exists(exercises_file)
    /\ Handle("backup")
    /\ UNCHANGED <<files, locals, history>>

\* A failed copy that is ignored: the run goes on to the write.
BackupFailsIgnored ==
    /\ AtBackup
    /\ Exists(exercises_file)
    /\ backup_file' \in {backup_file, Truncated}
    /\ pc' = "write"
    /\ UNCHANGED <<exercises_file, new_exercises_file, locals, printed, raised_at, history>>

\* shutil.copy2 raises OSError (permission denied, disk full): the destination
\* is untouched or holds a partial copy.
BackupFails ==
    /\ AtBackup
    /\ Exists(exercises_file)
    /\ backup_file' \in {backup_file, Truncated}
    /\ Handle("backup")
    /\ UNCHANGED <<exercises_file, new_exercises_file, locals, history>>

\* with open(EXERCISES_FILE, 'w') as f: json.dump(existing_data, f, indent=2)
WriteOk ==
    /\ pc = "write"
    /\ exercises_file' = JsonFile(existing_data)
    /\ pc' = "report"
    /\ UNCHANGED <<new_exercises_file, backup_file, locals, printed, raised_at, history>>

\* open(..., 'w') raises (the file is untouched), or the write fails after the
\* open truncated the file.
WriteFails ==
    /\ pc = "write"
    /\ exercises_file' \in {exercises_file, Truncated}
    /\ Handle("write")
    /\ UNCHANGED <<new_exercises_file, backup_file, locals, history>>

\* print(f"Merge successful. Added: {added_count}, Updated: {updated_count}")
Report ==
    /\ pc = "report"
    /\ printed' = "success"
    /\ pc' = "done"
    /\ UNCHANGED <<files, locals, raised_at, history>>

\* merge_exercises returns; its locals are gone.
Return ==
    /\ pc = "done"
    /\ pc' = "idle"
    /\ existing_data' = <<>>
    /\ exercise_map' = EmptyMap
    /\ new_data' = <<>>
    /\ idx' = 1
    /\ added_count' = 0
    /\ updated_count' = 0
    /\ remerge' = (printed = "success")
    /\ printed' = "none"
    /\ raised_at' = "none"
    /\ pre_exercises' = exercises_file
    /\ pre_backup' = backup_file
    /\ UNCHANGED files

\* Between two runs the user replaces new_exercises.json.
ReplaceIncoming ==
    /\ pc = "idle"
    /\ new_exercises_file' \in ReplacementFiles \ {new_exercises_file}
    /\ remerge' = FALSE
    /\ UNCHANGED <<exercises_file, backup_file, pc, locals, printed, raised_at,
                   pre_exercises, pre_backup>>

Next ==
    \/ ReadExisting
    \/ BuildMapOk
    \/ BuildMapKeyError
    \/ ReadNewOk
    \/ ReadNewFails
    \/ MergeHit
    \/ MergeMiss
    \/ MergeKeyError
    \/ BackupOk
    \/ BackupMissing
    \/ BackupFails
    \/ WriteOk
    \/ WriteFails
    \/ Report
    \/ Return
    \/ ReplaceIncoming

Spec == Init /\ [][Next]_vars

(***************************************************************************)
(* What a run started from, and what it was given.                         *)
(***************************************************************************)
\* The primary set the run loaded: the records of exercises.json, or none.
Loaded == IF pre_exercises.kind = "json" THEN pre_exercises.data ELSE <<>>
Incoming == new_exercises_file.data
Persisted == exercises_file.data

Succeeded == pc = "done" /\ printed = "success"

MaxOf(S) == CHOOSE x \in S : \A y \in S : y <= x

\* Incoming records of a name, and those of them that carry a field.
Matching(name) == { j \in DOMAIN Incoming : HasName(Incoming[j]) /\ Incoming[j]["name"] = name }
Carriers(name, fld) == { j \in Matching(name) : fld \in DOMAIN Incoming[j] }

\* The record the overlay rule gives for a loaded record.
Overlaid(old) ==
    [fld \in DOMAIN old \cup UNION { DOMAIN Incoming[j] : j \in Matching(old["name"]) } |->
        IF Carriers(old["name"], fld) = {}
        THEN old[fld]
        ELSE Incoming[MaxOf(Carriers(old["name"], fld))][fld]]

\* Incoming positions whose name is new: not loaded, and not seen earlier.
FirstNew ==
    { j \in DOMAIN Incoming :
        /\ Incoming[j]["name"] \notin NamesOf(Loaded)
        /\ \A i \in 1..(j - 1) : Incoming[i]["name"] # Incoming[j]["name"] }
Rank(j) == Cardinality({ i \in FirstNew : i <= j })

\* C1 (as claimed): a run that finds no exercises.json and N records of
\* pairwise distinct names ends with the success report, exercises.json holding
\* exactly those records in order, N additions and no update.
C1_FreshStart ==
    (/\ pc = "done"
     /\ ~Exists(pre_exercises)
     /\ Parses(new_exercises_file)
     /\ \A j \in DOMAIN Incoming : HasName(Incoming[j])
     /\ UniqueNames(Incoming))
        => /\ printed = "success"
           /\ exercises_file = JsonFile(Incoming)
           /\ added_count = Len(Incoming)
           /\ updated_count = 0

\* C2: while new_exercises.json is missing or unparsable no file is written:
\* exercises.json and the backup stay as the run found them, and the run ends
\* with the error report.
C2_IncomingFailureWritesNothing ==
    ~Parses(new_exercises_file)
        => /\ exercises_file = pre_exercises
           /\ backup_file = pre_backup
           /\ pc = "done" => printed = "error"

C2_Witness ==
    /\ pc = "done"
    /\ raised_at = "read_new"
    /\ new_exercises_file = Absent
    /\ Parses(pre_exercises) /\ Len(pre_exercises.data) > 0
    /\ pre_backup = Absent

\* C3: once a run that found an exercises.json has reached its write, the backup
\* holds exactly what exercises.json held when the run started, unparsable or
\* not, whatever the backup held before.
C3_BackupFidelity ==
    (/\ pc \in {"write", "report", "done"}
     /\ raised_at \in {"none", "write"}
     /\ Exists(pre_exercises))
        => backup_file = pre_exercises

C3_Witness ==
    /\ Succeeded
    /\ pre_exercises = Truncated
    /\ pre_backup.kind = "json"
    /\ backup_file = pre_exercises

\* C4: exercises.json changes only in the write step, and the write step is
\* reached only with the backup equal to exercises.json; a run whose copy
\* failed ends with the error report and exercises.json as it was.
C4_BackupBeforeWrite ==
    /\ [][exercises_file' # exercises_file
            => (pc = "write" /\ backup_file = exercises_file)]_vars
    /\ [](pc = "write" => (backup_file = exercises_file /\ exercises_file = pre_exercises))
    /\ [](raised_at = "backup" => (printed = "error" /\ exercises_file = pre_exercises))

C4_Witness ==
    /\ pc = "done"
    /\ raised_at = "backup"
    /\ Parses(pre_exercises)
    /\ pre_backup = Absent
    /\ backup_file = Truncated

C6_RecordOrder ==
    Succeeded
        => /\ Len(Persisted) = Len(Loaded) + Cardinality(FirstNew)
           /\ \A k \in DOMAIN Loaded : Persisted[k]["name"] = Loaded[k]["name"]
           /\ \A j \in FirstNew :
                Persisted[Len(Loaded) + Rank(j)]["name"] = Incoming[j]["name"]

\* A new name comes first in the incoming list and a loaded name second: the
\* loaded record stays first and the new one follows it.
C6_Witness ==
    /\ Succeeded
    /\ Len(Loaded) = 1
    /\ Len(Incoming) = 2
    /\ FirstNew = {1}
    /\ Incoming[2]["name"] = Loaded[1]["name"]
    /\ Len(Persisted) = 2

\* C7 (as claimed): a successful run that follows a successful run with the
\* same new_exercises.json adds nothing, counts as many updates as there are
\* matched names, and leaves exercises.json as it found it.
C7_RemergeCountsNames ==
    (Succeeded /\ remerge)
        => /\ added_count = 0
           /\ updated_count = Cardinality(NamesOf(Incoming))
           /\ exercises_file = pre_exercises

\* C7 (amended): ... counts one update for every incoming record ...
C7_RemergeIdempotent ==
    (Succeeded /\ remerge)
        => /\ added_count = 0
           /\ updated_count = Len(Incoming)
           /\ exercises_file = pre_exercises

C7_Witness ==
    /\ Succeeded
    /\ remerge
    /\ Len(Incoming) = 2
    /\ Cardinality(NamesOf(Incoming)) = 1
    /\ Incoming[1] # Incoming[2]

\* The name index refers, for exactly the names of existing_data, to the record
\* of that name in existing_data.
IndexInSync ==
    /\ DOMAIN exercise_map = NamesOf(existing_data)
    /\ \A n \in DOMAIN exercise_map :
        /\ exercise_map[n] \in DOMAIN existing_data
        /\ existing_data[exercise_map[n]]["name"] = n

\* C8: no two records of a parsable exercises.json have the same name, and from
\* the building of the index to the write the index is in sync with
\* existing_data, whose names are pairwise distinct.
C8_NameUniqueness ==
    /\ Parses(exercises_file) => UniqueNames(exercises_file.data)
    /\ pc \in {"read_new", "merge", "write", "report"}
        => (IndexInSync /\ UniqueNames(existing_data))

\* An incoming name that is new comes twice: appended once, then updated.
C8_Witness ==
    /\ Succeeded
    /\ Len(Loaded) = 1
    /\ Len(Incoming) = 2
    /\ Incoming[1]["name"] = Incoming[2]["name"]
    /\ added_count = 1
    /\ Len(Persisted) = 2

\* The steps of a run under way.
RunStep ==
    \/ BuildMapOk \/ BuildMapKeyError \/ ReadNewOk \/ ReadNewFails
    \/ MergeHit \/ MergeMiss \/ MergeKeyError
    \/ BackupOk \/ BackupMissing \/ BackupFails
    \/ WriteOk \/ WriteFails \/ Report

\* C9: a run under way can always take its next step and the loop position
\* stays within new_data; it ends with the success report or the error report,
\* the error report exactly when a step raised; a failure before the write
\* leaves exercises.json as the run found it.
C9_TwoOutcomes ==
    /\ pc \notin {"idle", "done"} => (ENABLED RunStep /\ idx <= Len(new_data) + 1)
    /\ pc = "done" =>
        /\ printed \in {"success", "error"}
        /\ printed = "success" <=> raised_at = "none"
    /\ raised_at \in {"build_map", "read_new", "merge", "backup"}
        => exercises_file = pre_exercises

\* A KeyError in the loop, after the loop changed the list in memory.
C9_Witness ==
    /\ pc = "done"
    /\ raised_at = "merge"
    /\ printed = "error"
    /\ idx = 2
    /\ existing_data # Loaded
    /\ Parses(exercises_file)

\* C10: on success the additions are the incoming records of a new name not
\* seen earlier, the updates are all the others, and the persisted list grew
\* by the additions.
C10_Counts ==
    Succeeded
        => /\ added_count = Cardinality(FirstNew)
           /\ updated_count = Len(Incoming) - Cardinality(FirstNew)
           /\ added_count + updated_count = Len(Incoming)
           /\ Len(Persisted) = Len(Loaded) + added_count

C10_Witness ==
    /\ Succeeded
    /\ added_count = 1
    /\ updated_count = 1
    /\ Len(Loaded) = 1
    /\ Incoming[1]["name"] \in NamesOf(Loaded)

====
